---- MODULE Spec2Model ----
(***************************************************************************)
(* Model of the bookmark list component (components/BookmarkList.tsx): the *)
(* React state of one mounted BookmarkList, the Supabase table it writes   *)
(* to, the realtime change feed it listens to, and the create and delete   *)
(* requests it has in flight.                                              *)
(***************************************************************************)
EXTENDS Integers, Sequences, FiniteSets, TLC

\* ------------------------------------------------------------------ bounds
\* Rows the table holds when the page is first rendered: 0..InitCount.
InitCount == 2
\* Operations started in one run, by the user (a submit, a delete), by another
\* session (an insert, a delete) or by the feed (a repeated delivery).
MaxOps == 2

\* ------------------------------------------------------------- strings
\* A string is a sequence of one-character strings.
EmptyStr == <<>>

IsSpace(c) == c = " "

RECURSIVE TrimStart(_)
TrimStart(s) ==
    IF s = <<>> THEN s
    ELSE IF IsSpace(Head(s)) THEN TrimStart(Tail(s)) ELSE s

RECURSIVE TrimEnd(_)
TrimEnd(s) ==
    IF s = <<>> THEN s
    ELSE IF IsSpace(s[Len(s)]) THEN TrimEnd(SubSeq(s, 1, Len(s) - 1)) ELSE s

\* String.prototype.trim
Trim(s) == TrimEnd(TrimStart(s))

IsAlpha(c) == c \in {"a", "T"}

\* new URL(url) with no base: leading and trailing spaces are stripped, then
\* the input must start with a scheme, letters followed by ":"; anything else
\* throws.
ParsesAsURL(s) ==
    LET t == Trim(s) IN
    \E k \in 2..Len(t) :
        /\ t[k] = ":"
        /\ \A j \in 1..(k - 1) : IsAlpha(t[j])

\* What the user can type into the url and the title input.
UrlInputs == { <<" ", "a", ":">>, <<"a">> }
TitleInputs == { <<" ", "T">>, <<" ">> }

\* The error texts the component shows.
ErrNone == ""
ErrUrl == "Please enter a valid URL"
ErrTitle == "Please enter a title"
ErrInsert == "Failed to add bookmark"

\* ------------------------------------------------------------- records
\* The user the page is first rendered for, and the users there are.
UserId == "u1"
Users == {"u1", "u2"}

\* type Bookmark
Bookmark(id, u, t, at) ==
    [id |-> id, user_id |-> UserId, url |-> u, title |-> t, created_at |-> at]

\* The record with user_id: u (user_id: userId in handleSubmit).
Owned(rec, u) == [rec EXCEPT !.user_id = u]

NoBookmark == [id |-> 0, user_id |-> "", url |-> <<>>, title |-> <<>>, created_at |-> 0]

\* The row another session of the same user inserts.
RemoteUrl == <<"a", ":">>
RemoteTitle == <<"T">>

\* --------------------------------------------------- list operations
Ids(list) == { list[i].id : i \in 1..Len(list) }

\* current.some(b => b.id === id)
Exists(list, id) == \E i \in 1..Len(list) : list[i].id = id

\* InsertAtFront that puts the record at the end.
InsertAtEnd(list, r) == Append(list, r)

\* [record, ...current]
InsertAtFront(list, r) == <<r>> \o list

\* RemoveById that removes the first match only.
RECURSIVE RemoveFirstById(_, _)
RemoveFirstById(list, id) ==
    IF list = <<>> THEN list
    ELSE IF Head(list).id = id THEN Tail(list)
    ELSE <<Head(list)>> \o RemoveFirstById(Tail(list), id)

\* current.filter(b => b.id !== id)
RemoveById(list, id) == SelectSeq(list, LAMBDA b : b.id # id)

\* current.map(b => b.id === id ? r : b)
ReplaceById(list, id, r) ==
    [i \in 1..Len(list) |-> IF list[i].id = id THEN r ELSE list[i]]

\* bookmarks.find(b => b.id === id)
Find(list, id) ==
    IF Exists(list, id)
    THEN list[CHOOSE i \in 1..Len(list) :
                /\ list[i].id = id
                /\ \A j \in 1..(i - 1) : list[j].id # id]
    ELSE NoBookmark

\* select('*').order('created_at', {ascending: false}) over the rows 1..n
RECURSIVE InitialList(_)
InitialList(n) ==
    IF n = 0 THEN <<>>
    ELSE <<Bookmark(n, RemoteUrl, RemoteTitle, n)>> \o InitialList(n - 1)

\* ---------------------------------------------------------------- state
VARIABLES
    bookmarks,   \* useState: the list shown
    url,         \* useState: the url input
    title,       \* useState: the title input
    isAdding,    \* useState
    error,       \* useState
    mounted,     \* the component is mounted and its channel is subscribed
    store,       \* the rows of public.bookmarks the user owns
    events,      \* change events published and not yet delivered, in order
    tick,        \* next fresh id / timestamp
    createReq,   \* the create request of handleSubmit
    deletes,     \* the delete requests of handleDelete in flight
    ops,         \* operations started so far
    lastEvent,   \* the payload the callback received last
    userId,      \* the userId prop
    channels,    \* the filters (user ids) of the channels that are subscribed
    deleted      \* the ids whose delete request has succeeded

vars == <<bookmarks, url, title, isAdding, error, mounted, store, events,
          tick, createReq, deletes, ops, lastEvent, userId, channels, deleted>>

session == <<userId, channels>>

ui == <<url, title, isAdding, error>>

\* tempId, url, title: optimisticBookmark; data: data[0] of the response.
\* rawUrl, rawTitle, pre and clean are bookkeeping the component does not
\* have: the inputs and the list as they were when the form was submitted, and
\* whether anything else has changed the list since.
NoReq ==
    [state |-> "none", tempId |-> 0, url |-> <<>>, title |-> <<>>,
     user_id |-> "", data |-> NoBookmark, rawUrl |-> <<>>, rawTitle |-> <<>>,
     pre |-> <<>>, clean |-> TRUE]

InFlight(req) == req.state \in {"sent", "ok", "err"}

\* The payload received last, and whether its id was in the list.
Received(type, id, hit) == [type |-> type, id |-> id, hit |-> hit]

\* While a create is in flight, note that something else changed the list.
Track(req, old, new) ==
    IF InFlight(req) /\ old # new THEN [req EXCEPT !.clean = FALSE] ELSE req

\* BookmarksPage: the initial fetch seeds the list with the table's rows.
Init ==
    \E n \in 0..InitCount :
        /\ bookmarks = InitialList(n)
        /\ store = { Bookmark(i, RemoteUrl, RemoteTitle, i) : i \in 1..n }
        /\ tick = n + 1
        /\ url = EmptyStr
        /\ title = EmptyStr
        /\ isAdding = FALSE
        /\ error = ErrNone
        /\ mounted = TRUE
        /\ events = <<>>
        /\ createReq = NoReq
        /\ deletes = {}
        /\ ops = 0
        /\ lastEvent = Received("", 0, FALSE)
        /\ userId = UserId
        /\ channels = {UserId}
        /\ deleted = {}

\* ------------------------------------------------------- the change feed
\* supabase_realtime publication: a change is pushed to the channel this
\* component subscribed when the row passes the channel's filter
\* (user_id=eq.${userId}); nothing is pushed to a removed channel.
Publish(q, type, rec) ==
    IF mounted /\ rec.user_id \in channels
    THEN Append(q, [type |-> type, rec |-> rec])
    ELSE q

\* supabase.channel('bookmarks-changes').on(...).subscribe(...)
Subscribe(chs, u) == chs \cup {u}

\* Release that leaves the channel subscribed.
ReleaseLeak(chs, u) == chs

\* supabase.removeChannel(channel)
Release(chs, u) == chs \ {u}

\* OnInsert without the `exists` check.
OnInsertUnchecked(list, rec) == InsertAtFront(list, rec)

\* payload.eventType === 'INSERT'
OnInsert(list, rec) ==
    IF Exists(list, rec.id) THEN list ELSE InsertAtFront(list, rec)

\* OnDelete that drops the first record instead of the one named.
OnDeleteFirst(list, rec) == IF list = <<>> THEN list ELSE Tail(list)

\* payload.eventType === 'DELETE'
OnDelete(list, rec) == RemoveById(list, rec.id)

\* A callback that leaves the list as it is.
OnPayloadDropped(list, e) == list

\* The postgres_changes callback, applied to one event.
OnPayload(list, e) ==
    IF e.type = "INSERT" THEN OnInsert(list, e.rec)
    ELSE IF e.type = "DELETE" THEN OnDelete(list, e.rec)
    ELSE list

Handle(e) ==
    /\ bookmarks' = OnPayload(bookmarks, e)
    /\ createReq' = Track(createReq, bookmarks, bookmarks')
    /\ lastEvent' = Received(e.type, e.rec.id, Exists(bookmarks, e.rec.id))

\* The channel delivers its oldest pending event.
Deliver ==
    /\ mounted
    /\ events # <<>>
    /\ Handle(Head(events))
    /\ events' = Tail(events)
    /\ UNCHANGED <<ui, mounted, store, tick, deletes, ops,
                   session, deleted>>

\* At-least-once delivery: the event is delivered and will be delivered again.
DeliverDup ==
    /\ mounted
    /\ events # <<>>
    /\ ops < MaxOps
    /\ Handle(Head(events))
    /\ ops' = ops + 1
    /\ UNCHANGED <<ui, mounted, store, events, tick, deletes,
                   session, deleted>>

\* useEffect cleanup: supabase.removeChannel(channel)
Unmount ==
    /\ mounted
    /\ mounted' = FALSE
    /\ channels' = Release(channels, userId)
    /\ events' = <<>>
    /\ UNCHANGED <<bookmarks, ui, store, tick, createReq, deletes, ops, lastEvent,
                   userId, deleted>>

\* The page is rendered for another user while the component stays mounted:
\* the effect's cleanup runs, then the effect runs again with the new userId.
\* The component's state is kept.
ChangeUser(u) ==
    /\ mounted
    /\ u # userId
    /\ ops < MaxOps
    /\ userId' = u
    /\ channels' = Subscribe(Release(channels, userId), u)
    /\ events' = <<>>
    /\ ops' = ops + 1
    /\ UNCHANGED <<bookmarks, ui, mounted, store, tick, createReq, deletes,
                   lastEvent, deleted>>

\* ------------------------------------------------------------ the inputs
\* onChange of the url input
TypeUrl(u) ==
    /\ mounted
    /\ url' = u
    /\ UNCHANGED <<bookmarks, title, isAdding, error, mounted, store, events,
                   tick, createReq, deletes, ops, lastEvent,
                   session, deleted>>

\* onChange of the title input
TypeTitle(t) ==
    /\ mounted
    /\ title' = t
    /\ UNCHANGED <<bookmarks, url, isAdding, error, mounted, store, events,
                   tick, createReq, deletes, ops, lastEvent,
                   session, deleted>>

\* ---------------------------------------------------------- handleSubmit
\* The form can be submitted: both inputs are `required`, the submit button
\* is disabled while isAdding.
CanSubmit ==
    /\ mounted
    /\ ~isAdding
    /\ url # EmptyStr
    /\ title # EmptyStr
    /\ ops < MaxOps

\* SubmitBadUrl that also clears the inputs.
SubmitBadUrlClears ==
    /\ CanSubmit
    /\ ~ParsesAsURL(url)
    /\ error' = ErrUrl
    /\ isAdding' = FALSE
    /\ url' = EmptyStr
    /\ title' = EmptyStr
    /\ ops' = ops + 1
    /\ UNCHANGED <<bookmarks, mounted, store, events, tick, createReq, deletes,
                   lastEvent,
                   session, deleted>>

\* new URL(url) throws
SubmitBadUrl ==
    /\ CanSubmit
    /\ ~ParsesAsURL(url)
    /\ error' = ErrUrl
    /\ isAdding' = FALSE
    /\ ops' = ops + 1
    /\ UNCHANGED <<bookmarks, url, title, mounted, store, events, tick,
                   createReq, deletes, lastEvent,
                   session, deleted>>

\* !title.trim()
SubmitBadTitle ==
    /\ CanSubmit
    /\ ParsesAsURL(url)
    /\ Trim(title) = EmptyStr
    /\ error' = ErrTitle
    /\ isAdding' = FALSE
    /\ ops' = ops + 1
    /\ UNCHANGED <<bookmarks, url, title, mounted, store, events, tick,
                   createReq, deletes, lastEvent,
                   session, deleted>>

\* OptimisticBookmark with the inputs as typed.
OptimisticBookmarkRaw(tempId, u, t, at) == Bookmark(tempId, u, t, at)

\* const optimisticBookmark = {...}
OptimisticBookmark(tempId, u, t, at) == Bookmark(tempId, Trim(u), Trim(t), at)

\* Validation passed: the placeholder is shown, the inputs are cleared and
\* the insert request is sent.
Submit ==
    /\ CanSubmit
    /\ ParsesAsURL(url)
    /\ Trim(title) # EmptyStr
    /\ LET opt == Owned(OptimisticBookmark(tick, url, title, tick), userId) IN
        /\ bookmarks' = InsertAtFront(bookmarks, opt)
        /\ createReq' = [state |-> "sent", tempId |-> opt.id, url |-> opt.url,
                         title |-> opt.title, user_id |-> userId,
                         data |-> NoBookmark,
                         rawUrl |-> url, rawTitle |-> title,
                         pre |-> bookmarks, clean |-> TRUE]
    /\ url' = EmptyStr
    /\ title' = EmptyStr
    /\ error' = ErrNone
    /\ isAdding' = TRUE
    /\ tick' = tick + 1
    /\ ops' = ops + 1
    /\ UNCHANGED <<mounted, store, events, deletes, lastEvent,
                   session, deleted>>

\* The table accepts the insert: it assigns the id and created_at, and the
\* change is published.
StoreInsertOk ==
    /\ createReq.state = "sent"
    /\ LET row == Owned(Bookmark(tick, createReq.url, createReq.title, tick),
                        createReq.user_id) IN
        /\ store' = store \cup {row}
        /\ events' = Publish(events, "INSERT", row)
        /\ createReq' = [createReq EXCEPT !.state = "ok", !.data = row]
    /\ tick' = tick + 1
    /\ UNCHANGED <<bookmarks, ui, mounted, deletes, ops, lastEvent,
                   session, deleted>>

\* The insert is rejected or the request fails.
StoreInsertFail ==
    /\ createReq.state = "sent"
    /\ createReq' = [createReq EXCEPT !.state = "err"]
    /\ UNCHANGED <<bookmarks, ui, mounted, store, events, tick, deletes, ops,
                   lastEvent,
                   session, deleted>>

\* InsertFailed that drops the first record instead of the placeholder.
InsertFailedDropFirst(list, req) == IF list = <<>> THEN list ELSE Tail(list)

\* InsertFailed that puts back the list as it was when the form was submitted.
InsertFailedToSnapshot(list, req) == req.pre

\* if (insertError) {...}: the list without the placeholder
InsertFailed(list, req) == RemoveById(list, req.tempId)

\* RestoredInputs that leaves the inputs cleared.
RestoredInputsCleared(req) == <<EmptyStr, EmptyStr>>

\* setUrl(optimisticBookmark.url), setTitle(optimisticBookmark.title)
RestoredInputs(req) == <<req.url, req.title>>

\* InsertSucceeded that drops the placeholder and puts the row in front.
InsertSucceededAtFront(list, req) ==
    InsertAtFront(RemoveById(list, req.tempId), req.data)

\* else { if (data && data[0]) ... }: the placeholder replaced by the row
InsertSucceeded(list, req) == ReplaceById(list, req.tempId, req.data)

\* The await returns with insertError.
CreateFailed ==
    /\ createReq.state = "err"
    /\ bookmarks' = InsertFailed(bookmarks, createReq)
    /\ error' = ErrInsert
    /\ url' = RestoredInputs(createReq)[1]
    /\ title' = RestoredInputs(createReq)[2]
    /\ isAdding' = FALSE
    /\ createReq' = [createReq EXCEPT !.state = "failed", !.pre = <<>>]
    /\ UNCHANGED <<mounted, store, events, tick, deletes, ops, lastEvent,
                   session, deleted>>

\* CreateSucceeded that returns before setIsAdding(false).
CreateSucceededReturnsEarly ==
    /\ createReq.state = "ok"
    /\ bookmarks' = InsertSucceeded(bookmarks, createReq)
    /\ createReq' = [createReq EXCEPT !.state = "done", !.pre = <<>>]
    /\ UNCHANGED <<ui, mounted, store, events, tick, deletes,
                   ops, lastEvent,
                   session, deleted>>

\* The await returns with data.
CreateSucceeded ==
    /\ createReq.state = "ok"
    /\ bookmarks' = InsertSucceeded(bookmarks, createReq)
    /\ isAdding' = FALSE
    /\ createReq' = [createReq EXCEPT !.state = "done", !.pre = <<>>]
    /\ UNCHANGED <<url, title, error, mounted, store, events, tick, deletes,
                   ops, lastEvent,
                   session, deleted>>

\* ---------------------------------------------------------- handleDelete
\* The delete button of a listed bookmark: the record is captured, removed
\* from the list, and the delete request is sent.
Delete(id) ==
    /\ mounted
    /\ Exists(bookmarks, id)
    /\ ops < MaxOps
    /\ bookmarks' = RemoveById(bookmarks, id)
    /\ deletes' = deletes \cup
           {[n |-> ops, id |-> id, bookmarkToDelete |-> Find(bookmarks, id),
             user |-> userId, state |-> "sent"]}
    /\ ops' = ops + 1
    /\ createReq' = Track(createReq, bookmarks, bookmarks')
    /\ UNCHANGED <<ui, mounted, store, events, tick, lastEvent,
                   session, deleted>>

\* The table runs the delete: the row, if there is one the user may delete,
\* is removed and the change is published.
StoreDeleteOk(d) ==
    /\ d \in deletes
    /\ d.state = "sent"
    /\ LET rows == { r \in store : r.id = d.id /\ r.user_id = d.user } IN
        /\ store' = store \ rows
        /\ events' = IF rows = {} THEN events
                     ELSE Publish(events, "DELETE", CHOOSE r \in rows : TRUE)
    /\ deletes' = (deletes \ {d}) \cup {[d EXCEPT !.state = "ok"]}
    /\ UNCHANGED <<bookmarks, ui, mounted, tick, createReq, ops, lastEvent,
                   session, deleted>>

\* The delete is rejected or the request fails.
StoreDeleteFail(d) ==
    /\ d \in deletes
    /\ d.state = "sent"
    /\ deletes' = (deletes \ {d}) \cup {[d EXCEPT !.state = "err"]}
    /\ UNCHANGED <<bookmarks, ui, mounted, store, events, tick, createReq, ops,
                   lastEvent,
                   session, deleted>>

\* Restore that puts the record back at the end.
RestoreAtEnd(list, d) ==
    IF d.bookmarkToDelete # NoBookmark
    THEN Append(list, d.bookmarkToDelete)
    ELSE list

\* if (deleteError) { if (bookmarkToDelete) ... }
Restore(list, d) ==
    IF d.bookmarkToDelete # NoBookmark
    THEN InsertAtFront(list, d.bookmarkToDelete)
    ELSE list

\* The await returns with deleteError.
DeleteFailed(d) ==
    /\ d \in deletes
    /\ d.state = "err"
    /\ bookmarks' = Restore(bookmarks, d)
    /\ deletes' = deletes \ {d}
    /\ createReq' = Track(createReq, bookmarks, bookmarks')
    /\ UNCHANGED <<ui, mounted, store, events, tick, ops, lastEvent,
                   session, deleted>>

\* The await returns without error.
DeleteSucceeded(d) ==
    /\ d \in deletes
    /\ d.state = "ok"
    /\ deletes' = deletes \ {d}
    /\ deleted' = deleted \cup {d.id}
    /\ UNCHANGED <<bookmarks, ui, mounted, store, events, tick, createReq, ops,
                   lastEvent, session>>

\* ------------------------------------------------------- other sessions
\* Another session of the same user adds a bookmark.
RemoteCreate ==
    /\ ops < MaxOps
    /\ LET row == Owned(Bookmark(tick, RemoteUrl, RemoteTitle, tick), userId) IN
        /\ store' = store \cup {row}
        /\ events' = Publish(events, "INSERT", row)
    /\ tick' = tick + 1
    /\ ops' = ops + 1
    /\ UNCHANGED <<bookmarks, ui, mounted, createReq, deletes, lastEvent,
                   session, deleted>>

\* Another session of the same user deletes a bookmark.
RemoteDelete(row) ==
    /\ ops < MaxOps
    /\ row \in store
    /\ row.user_id = userId
    /\ store' = store \ {row}
    /\ events' = Publish(events, "DELETE", row)
    /\ ops' = ops + 1
    /\ UNCHANGED <<bookmarks, ui, mounted, tick, createReq, deletes, lastEvent,
                   session, deleted>>

Next ==
    \/ Deliver
    \/ DeliverDup
    \/ Unmount
    \/ \E u \in Users : ChangeUser(u)
    \/ \E u \in UrlInputs : TypeUrl(u)
    \/ \E t \in TitleInputs : TypeTitle(t)
    \/ SubmitBadUrl
    \/ SubmitBadTitle
    \/ Submit
    \/ StoreInsertOk
    \/ StoreInsertFail
    \/ CreateFailed
    \/ CreateSucceeded
    \/ \E id \in Ids(bookmarks) : Delete(id)
    \/ \E d \in deletes : StoreDeleteOk(d)
    \/ \E d \in deletes : StoreDeleteFail(d)
    \/ \E d \in deletes : DeleteFailed(d)
    \/ \E d \in deletes : DeleteSucceeded(d)
    \/ RemoteCreate
    \/ \E row \in store : RemoteDelete(row)

Spec == Init /\ [][Next]_vars

\* The channel's callback runs for every event the channel holds: a pending
\* event is delivered unless the channel is removed first.
FairSpec == Spec /\ WF_vars(Deliver)

\* The insert request gets its response, and the handler waiting for it
\* (await, line 113) then runs to its end.
SubmitFairSpec ==
    /\ Spec
    /\ WF_vars(StoreInsertOk \/ StoreInsertFail)
    /\ WF_vars(CreateFailed \/ CreateSucceeded)

\* ------------------------------------------ the list operations alone
\* Lists of at most MaxLen records over the ids 1..MaxListId, repeated ids
\* included.
MaxLen == 3
MaxListId == 3

ListIds == 1..MaxListId

ListRecord(id) == Bookmark(id, RemoteUrl, RemoteTitle, id)

BoundedLists ==
    UNION { [1..n -> { ListRecord(id) : id \in ListIds }] : n \in 0..MaxLen }

ListInit ==
    /\ bookmarks \in BoundedLists
    /\ url = EmptyStr
    /\ title = EmptyStr
    /\ isAdding = FALSE
    /\ error = ErrNone
    /\ mounted = TRUE
    /\ store = {}
    /\ events = <<>>
    /\ tick = MaxListId + 1
    /\ createReq = NoReq
    /\ deletes = {}
    /\ ops = 0
    /\ lastEvent = Received("", 0, FALSE)
    /\ userId = UserId
    /\ channels = {UserId}
    /\ deleted = {}

ListFrame ==
    UNCHANGED <<ui, mounted, store, events, tick, createReq, deletes, ops,
                   session, deleted>>

\* removeById(x)
ListRemove(x) ==
    /\ bookmarks' = RemoveById(bookmarks, x)
    /\ lastEvent' = Received("remove", x, Exists(bookmarks, x))
    /\ ListFrame

\* replaceById(x, r)
ListReplace(x, r) ==
    /\ bookmarks' = ReplaceById(bookmarks, x, r)
    /\ lastEvent' = Received("replace", x, Exists(bookmarks, x))
    /\ ListFrame

ListNext ==
    \/ \E x \in ListIds : ListRemove(x)
    \/ \E x \in ListIds : \E y \in ListIds : ListReplace(x, ListRecord(y))

ListSpec == ListInit /\ [][ListNext]_vars

\* -------------------------------------------------------------- claims
Count(list, ids) == Cardinality({ i \in 1..Len(list) : list[i].id \in ids })

Others(list, id) == SelectSeq(list, LAMBDA b : b.id # id)

\* The ids of the current user's rows.
StoreIds == { r.id : r \in { x \in store : x.user_id = userId } }

\* A Created / Deleted event is being delivered.
Delivering(type) ==
    /\ Deliver \/ DeliverDup
    /\ Head(events).type = type

\* C1: the list never holds two records with the same id.
C1_Uniqueness ==
    \A i \in 1..Len(bookmarks) : \A j \in 1..Len(bookmarks) :
        bookmarks[i].id = bookmarks[j].id => i = j

\* C2: from the optimistic insertion on, the list never holds two records for
\* one create: the placeholder (temporary id) and the row of the response
\* (permanent id) together count at most once.
C2_OneRecordPerCreate ==
    createReq.state \in {"sent", "ok", "err", "done"} =>
        Count(bookmarks, {createReq.tempId, createReq.data.id} \ {0}) <= 1

\* The component is mounted for the user it was first rendered for, no
\* request is in flight and every published event has been delivered.
Quiescent ==
    /\ mounted
    /\ userId = UserId
    /\ ~InFlight(createReq)
    /\ deletes = {}
    /\ events = <<>>

\* C3: once nothing is in flight and every event has been delivered, the ids
\* in the list are the ids of the user's rows in the table.
C3_Convergence == Quiescent => Ids(bookmarks) = StoreIds

\* C4: a Created event whose id is already in the list leaves the list as it
\* is, records and order.
C4_DuplicateEchoSuppressed ==
    [][(Delivering("INSERT") /\ Exists(bookmarks, Head(events).rec.id))
          => bookmarks' = bookmarks]_vars

C4_Witness ==
    /\ lastEvent.type = "INSERT"
    /\ lastEvent.hit
    /\ Count(bookmarks, {lastEvent.id}) = 1

\* C5 as stated: once a create's failure is processed, the list is the list
\* as it was just before the create action.
C5_RollbackRestoresList ==
    [][CreateFailed => bookmarks' = createReq.pre]_vars

\* C5 amended: processing a create's failure removes the placeholder from the
\* list as it then is and changes nothing else, so the list is the list as it
\* was just before the create action when nothing else changed the list while
\* the request was in flight.
C5_RollbackRemovesPlaceholder ==
    [][CreateFailed =>
          /\ ~Exists(bookmarks', createReq.tempId)
          /\ bookmarks' = Others(bookmarks, createReq.tempId)
          /\ (createReq.clean => bookmarks' = createReq.pre)]_vars

C5_Witness ==
    /\ createReq.state = "failed"
    /\ createReq.clean
    /\ error = ErrInsert
    /\ bookmarks # <<>>

\* C6 as stated: once a create's failure is processed, the inputs hold the
\* url and the title as the user entered them, and an error message is set.
C6_RollbackRestoresEntered ==
    [][CreateFailed =>
          /\ url' = createReq.rawUrl
          /\ title' = createReq.rawTitle
          /\ error' # ErrNone]_vars

\* C6 amended: once a create's failure is processed, the inputs hold the
\* entered url and title with leading and trailing whitespace removed, and
\* the failure message is set.
C6_RollbackRestoresTrimmed ==
    [][CreateFailed =>
          /\ url' = Trim(createReq.rawUrl)
          /\ title' = Trim(createReq.rawTitle)
          /\ error' = ErrInsert]_vars

C6_Witness ==
    /\ createReq.state = "failed"
    /\ error = ErrInsert
    /\ url = Trim(createReq.rawUrl)
    /\ title = Trim(createReq.rawTitle)
    /\ url # createReq.rawUrl
    /\ title # createReq.rawTitle

\* C7: the list is ordered by created_at, most recent first.
C7_Ordering ==
    \A i \in 1..Len(bookmarks) : \A j \in 1..Len(bookmarks) :
        i < j => bookmarks[i].created_at >= bookmarks[j].created_at

\* C8: after the component is unmounted nothing changes the list, the inputs
\* or the error.
C8_TeardownSafety ==
    [][~mounted => UNCHANGED <<bookmarks, url, title, error>>]_vars

\* C9: a Deleted event and a local delete of the same id, in either order:
\* after each of the two the record is not in the list, every other record is
\* where it was, and the error is as it was.
C9_DeletionRace ==
    [][\A id \in 1..tick :
          ((Delivering("DELETE") /\ Head(events).rec.id = id) \/ Delete(id))
            => /\ ~Exists(bookmarks', id)
               /\ bookmarks' = Others(bookmarks, id)
               /\ error' = error]_vars

\* A Deleted event arrived for a record the local delete, still in flight,
\* had removed already.
C9_Witness ==
    /\ lastEvent.type = "DELETE"
    /\ ~lastEvent.hit
    /\ \E d \in deletes : d.id = lastEvent.id /\ d.bookmarkToDelete # NoBookmark
    /\ ~Exists(bookmarks, lastEvent.id)
    /\ bookmarks # <<>>
    /\ error = ErrNone

\* C10: removing an id twice gives what removing it once gives; removing or
\* replacing an id that is not in the list gives the list back.
C10_IdempotentRemoval ==
    \A x \in ListIds :
        /\ RemoveById(RemoveById(bookmarks, x), x) = RemoveById(bookmarks, x)
        /\ ~Exists(RemoveById(bookmarks, x), x)
        /\ ~Exists(bookmarks, x) =>
              /\ RemoveById(bookmarks, x) = bookmarks
              /\ \A y \in ListIds :
                    ReplaceById(bookmarks, x, ListRecord(y)) = bookmarks

\* A removal of an id that is not in the list.
C10_Witness ==
    /\ lastEvent.type = "remove"
    /\ ~lastEvent.hit
    /\ bookmarks # <<>>

\* handleSubmit runs, whatever its outcome.
HandleSubmit == SubmitBadUrl \/ SubmitBadTitle \/ Submit

\* C11: a submit whose url does not parse or whose title is blank sets an
\* error message and changes neither the list nor the inputs; no placeholder
\* is made and no request is sent.
C11_ValidationFailure ==
    [][(HandleSubmit /\ (~ParsesAsURL(url) \/ Trim(title) = EmptyStr)) =>
          /\ error' \in {ErrUrl, ErrTitle}
          /\ ~isAdding'
          /\ UNCHANGED <<bookmarks, url, title, createReq, tick, store>>]_vars

C11_Witness ==
    /\ error = ErrTitle
    /\ ParsesAsURL(url)
    /\ title = <<" ">>
    /\ createReq.state = "none"
    /\ ~isAdding

\* C14: a failed create and a failed delete each roll the optimistic change
\* back and set an error message.
C14_WriteFailureReported ==
    [][/\ CreateFailed =>
            /\ ~Exists(bookmarks', createReq.tempId)
            /\ error' # ErrNone
       /\ \A d \in deletes : DeleteFailed(d) =>
            /\ Exists(bookmarks', d.id)
            /\ error' # ErrNone]_vars

\* C16: while the create is in flight, only its own resolution takes the
\* placeholder out of the list.
C16_PlaceholderOwnership ==
    [][(/\ InFlight(createReq)
        /\ Exists(bookmarks, createReq.tempId)
        /\ ~Exists(bookmarks', createReq.tempId))
          => CreateFailed \/ CreateSucceeded]_vars

\* C17: once the create has resolved, no record with its temporary id is in
\* the list.
C17_PlaceholderResolved ==
    createReq.state \in {"done", "failed"} =>
        ~Exists(bookmarks, createReq.tempId)

\* C18: when the create succeeds and the placeholder is in the list, the row
\* of the response takes the placeholder's position; the length and every
\* other record are as they were.
C18_InPlaceReplacement ==
    [][(CreateSucceeded /\ Exists(bookmarks, createReq.tempId)) =>
          /\ Len(bookmarks') = Len(bookmarks)
          /\ \A i \in 1..Len(bookmarks) :
                bookmarks'[i] = IF bookmarks[i].id = createReq.tempId
                                THEN createReq.data
                                ELSE bookmarks[i]]_vars

\* The row of the response sits second, where the placeholder was, while its
\* own Created event is still to be delivered.
C18_Witness ==
    /\ createReq.state = "done"
    /\ Len(bookmarks) = 2
    /\ bookmarks[2] = createReq.data
    /\ bookmarks[1].id # createReq.data.id
    /\ events # <<>>
    /\ Head(events).type = "INSERT"
    /\ Head(events).rec.id = createReq.data.id

\* C19: a failed delete puts the captured record back at the front of the
\* list, so the record is in the list again; a successful delete leaves the
\* list as it is.
C19_DeleteRollback ==
    [][\A d \in deletes :
          /\ DeleteFailed(d) =>
                /\ d.bookmarkToDelete # NoBookmark
                /\ bookmarks' = <<d.bookmarkToDelete>> \o bookmarks
                /\ Exists(bookmarks', d.id)
          /\ DeleteSucceeded(d) => bookmarks' = bookmarks]_vars

\* An older record in front of a newer one with no event delivered and no
\* create made: a delete was rolled back.
C19_Witness ==
    /\ Len(bookmarks) = 2
    /\ bookmarks[1].created_at < bookmarks[2].created_at
    /\ createReq.state = "none"
    /\ lastEvent.type = ""
    /\ deletes = {}

\* C20: a submit that passes validation puts the placeholder (temporary id,
\* trimmed url and title, the user's id) at the front of the list and clears
\* both inputs, with the request still unresolved.
C20_CreateOrdering ==
    [][Submit =>
          /\ bookmarks' =
                <<[id |-> tick, user_id |-> userId, url |-> Trim(url),
                   title |-> Trim(title), created_at |-> tick]>> \o bookmarks
          /\ url' = EmptyStr
          /\ title' = EmptyStr
          /\ createReq'.state = "sent"
          /\ createReq'.tempId = Head(bookmarks').id]_vars

C20_Witness ==
    /\ createReq.state = "sent"
    /\ bookmarks # <<>>
    /\ Head(bookmarks).id = createReq.tempId
    /\ Head(bookmarks).url = Trim(createReq.rawUrl)
    /\ Head(bookmarks).url # createReq.rawUrl
    /\ url = EmptyStr
    /\ title = EmptyStr

\* C12: at most one channel is subscribed, it is filtered by the current
\* userId, and none is subscribed once the component is unmounted.
C12_SubscriptionRelease ==
    /\ Cardinality(channels) <= 1
    /\ channels \subseteq {userId}
    /\ mounted => channels = {userId}
    /\ ~mounted => channels = {}

\* The user has changed and the one channel is the new user's.
C12_Witness ==
    /\ mounted
    /\ userId # UserId
    /\ channels = {userId}

\* The largest id a run can assign.
MaxId == InitCount + 2 * MaxOps

\* A Created / Deleted event for the id is held by the channel subscribed
\* for user u.
Pending(type, id, u) ==
    /\ mounted
    /\ userId = u
    /\ \E i \in 1..Len(events) :
          events[i].type = type /\ events[i].rec.id = id

\* The channel subscribed for user u is no longer live.
Released(u) == ~mounted \/ userId # u

\* C13: while the subscription is live, a row another session added is
\* eventually in the list and a row another session deleted is eventually not
\* in the list, given that pending events are delivered.
C13_RealtimeSync ==
    \A id \in 1..MaxId : \A u \in Users :
        /\ Pending("INSERT", id, u) ~> (Exists(bookmarks, id) \/ Released(u))
        /\ Pending("DELETE", id, u) ~> (~Exists(bookmarks, id) \/ Released(u))

\* The row another session added was delivered and is in the list.
C13_Witness ==
    /\ mounted
    /\ lastEvent.type = "INSERT"
    /\ ~lastEvent.hit
    /\ Exists(bookmarks, lastEvent.id)
    /\ createReq.state = "none"
    /\ lastEvent.id \in StoreIds

\* C15: a record whose local delete has succeeded is not in the list again.
C15_NoResurrection == \A id \in deleted : ~Exists(bookmarks, id)

\* C21: a Created event whose id is not in the list puts its record in front
\* of the list as it was: the list grows by one and the rest is unchanged.
C21_CreatedFolding ==
    [][(Delivering("INSERT") /\ ~Exists(bookmarks, Head(events).rec.id)) =>
          /\ Len(bookmarks') = Len(bookmarks) + 1
          /\ bookmarks'[1] = Head(events).rec
          /\ \A i \in 1..Len(bookmarks) : bookmarks'[i + 1] = bookmarks[i]]_vars

\* The record of the Created event delivered last is in front of the records
\* the list held before.
C21_Witness ==
    /\ lastEvent.type = "INSERT"
    /\ ~lastEvent.hit
    /\ Len(bookmarks) >= 2
    /\ bookmarks[1].id = lastEvent.id
    /\ bookmarks[2].id # lastEvent.id

\* C22: processing a create's failure takes the record with the create's
\* temporary id out of the list and nothing else: every other record, those
\* put in while the request was in flight included, stays, in the same
\* relative order.
C22_RollbackFrame ==
    [][CreateFailed =>
          LET tempId == createReq.tempId
              Kept == { i \in 1..Len(bookmarks) : bookmarks[i].id # tempId }
          IN  /\ ~Exists(bookmarks', tempId)
              /\ Len(bookmarks') = Cardinality(Kept)
              /\ Len(bookmarks) - Len(bookmarks') <= 1
              /\ \A i \in Kept : \A j \in Kept :
                    i < j =>
                      \E k \in 1..Len(bookmarks') : \E l \in 1..Len(bookmarks') :
                          /\ k < l
                          /\ bookmarks'[k] = bookmarks[i]
                          /\ bookmarks'[l] = bookmarks[j]
              /\ \A i \in Kept :
                    \E k \in 1..Len(bookmarks') : bookmarks'[k] = bookmarks[i]]_vars

\* A create failed after a Created event had put another record into the
\* list while the request was in flight; that record is still there.
C22_Witness ==
    /\ createReq.state = "failed"
    /\ ~createReq.clean
    /\ lastEvent.type = "INSERT"
    /\ ~lastEvent.hit
    /\ Exists(bookmarks, lastEvent.id)
    /\ ~Exists(bookmarks, createReq.tempId)

\* C24: every record in the list is owned by the current user, also after the
\* user changes while the component stays mounted and after a create sent
\* under the previous user resolves.
C24_OwnerInvariant ==
    \A i \in 1..Len(bookmarks) : bookmarks[i].user_id = userId

\* C25: isAdding is true from a submit that passes validation until its
\* request resolves, and false after every way a submit ends (url rejected,
\* title rejected, create failed, create succeeded); every submit is followed
\* by isAdding being false, and the form can then be submitted again.
C25_SubmissionFlag ==
    /\ [][Submit => isAdding']_vars
    /\ [][(SubmitBadUrl \/ SubmitBadTitle \/ CreateFailed \/ CreateSucceeded)
            => ~isAdding']_vars
    /\ [](isAdding <=> InFlight(createReq))
    /\ isAdding ~> ~isAdding
    /\ []((~isAdding /\ mounted /\ ops < MaxOps /\ ParsesAsURL(url)
             /\ Trim(title) # EmptyStr) => ENABLED Submit)

\* A create has resolved, isAdding is false again and a second create has
\* been typed and can be submitted.
C25_Witness ==
    /\ createReq.state \in {"done", "failed"}
    /\ ~isAdding
    /\ mounted
    /\ ops < MaxOps
    /\ ParsesAsURL(url)
    /\ Trim(title) # EmptyStr
    /\ ENABLED Submit

====
